---- MODULE Spec2Model ----
(***************************************************************************)
(* Model of the VGA text-mode writer of mini_rust_os (src/vga_buffer.rs).  *)
(* The Writer's fields are the state; each public write operation is one   *)
(* action, computed by operators that follow the Rust code statement by    *)
(* statement.  Ghost variables (op, log, nops, nlSeen) record what the     *)
(* last operation did; they never influence the Writer.  The global        *)
(* WRITER (lazy_static + spin::Mutex), _print and the panic handler of     *)
(* main.rs are modelled by once, locked and ctx, one entry of ctx per      *)
(* execution context; ninit is a ghost count of initializer runs.          *)
(***************************************************************************)
EXTENDS Integers, Sequences, FiniteSets, TLC

VARIABLES row, col, text_color, background, buffer, panicked,
          op, log, nops, nlSeen,
          once, locked, ctx, ninit

vars == <<row, col, text_color, background, buffer, panicked,
          op, log, nops, nlSeen, once, locked, ctx, ninit>>

\* The state of the global access point.
lockvars == <<once, locked, ctx, ninit>>

(***************************************************************************)
(* Bounds of the exploration.                                              *)
(***************************************************************************)
MaxOps == 3
MaxPrints == 2

(***************************************************************************)
(* Program constants.                                                      *)
(***************************************************************************)
BUFFER_HEIGHT == 25
BUFFER_WIDTH == 80

Black == 0
Blue == 1
Green == 2
Red == 4
LightGray == 7
Yellow == 14
White == 15

NEWLINE == 10
SPACE == 32
PRINTABLE_LO == 32
PRINTABLE_HI == 126
SUBST == 254

\* enum Color, #[repr(u8)]: the 16 codes.
Color == 0 .. 15

Rows == 0 .. (BUFFER_HEIGHT - 1)
Cols == 0 .. (BUFFER_WIDTH - 1)

(***************************************************************************)
(* u8 arithmetic: a | b on bytes, a << 4 on u8 (the bits shifted out are   *)
(* lost).                                                                  *)
(***************************************************************************)
RECURSIVE BitOr(_, _)
BitOr(a, b) ==
    IF a = 0 /\ b = 0 THEN 0
    ELSE (IF a % 2 = 1 \/ b % 2 = 1 THEN 1 ELSE 0) + 2 * BitOr(a \div 2, b \div 2)

\* Mutant of Shl4: the shift is by 3 bits.
Shl4_By3(a) == (a * 8) % 256

Shl4(a) == (a * 16) % 256

\* Mutant of ColorCode::new: the two colors take each other's nibble.
ColorCodeNew_Swapped(tc, bg) == BitOr(Shl4(tc), bg)

\* ColorCode::new
ColorCodeNew(tc, bg) == BitOr(Shl4(bg), tc)

\* struct ScreenChar, #[repr(C)]: two bytes in memory, byte 0 the ASCII
\* code and byte 1 the color code; a cell is held as that 16-bit word.
ScreenChar(ascii, color) == ascii + 256 * color

\* The fields of a cell.
ascii_char(cell) == cell % 256
color(cell) == cell \div 256

\* Index check of chars[r][c]: Rust panics when it fails.
InBounds(r, c) == r \in Nat /\ c \in Nat /\ r < BUFFER_HEIGHT /\ c < BUFFER_WIDTH

(***************************************************************************)
(* The Writer as a value.  nbreaks, nscrolls and entries are ghost fields  *)
(* counting new_line calls, scrolls, and the per-byte effects.             *)
(***************************************************************************)
Self ==
    [row |-> row, col |-> col, text_color |-> text_color,
     background |-> background, buffer |-> buffer, panicked |-> panicked,
     nbreaks |-> 0, nscrolls |-> 0, entries |-> <<>>]

\* Mutant of clear_row: the blank cell is built with the two colors swapped.
clear_row_swapped(w, r) ==
    LET blank == ScreenChar(SPACE, ColorCodeNew(w.background, w.text_color))
    IN  IF w.panicked THEN w
        ELSE IF InBounds(r, 0) /\ InBounds(r, BUFFER_WIDTH - 1)
        THEN [w EXCEPT !.buffer[r] = [c \in Cols |-> blank]]
        ELSE [w EXCEPT !.panicked = TRUE]

\* Mutant of clear_row: the loop starts at column 1.
clear_row_FromCol1(w, r) ==
    LET blank == ScreenChar(SPACE, ColorCodeNew(w.text_color, w.background))
    IN  IF w.panicked THEN w
        ELSE IF InBounds(r, 0) /\ InBounds(r, BUFFER_WIDTH - 1)
        THEN [w EXCEPT !.buffer[r] =
                 [c \in Cols |-> IF c >= 1 THEN blank ELSE w.buffer[r][c]]]
        ELSE [w EXCEPT !.panicked = TRUE]

\* Writer::clear_row
clear_row(w, r) ==
    LET blank == ScreenChar(SPACE, ColorCodeNew(w.text_color, w.background))
    IN  IF w.panicked THEN w
        ELSE IF InBounds(r, 0) /\ InBounds(r, BUFFER_WIDTH - 1)
        THEN [w EXCEPT !.buffer[r] = [c \in Cols |-> blank]]
        ELSE [w EXCEPT !.panicked = TRUE]

\* Mutant of ShiftRows: the loop stops one row early (1..BUFFER_HEIGHT - 1),
\* so the last row is never copied up.
ShiftRows_SkipLast(w) ==
    IF w.panicked THEN w
    ELSE [w EXCEPT !.buffer =
            [r \in Rows |->
                IF r + 1 \in 1 .. (BUFFER_HEIGHT - 2)
                THEN w.buffer[r + 1] ELSE w.buffer[r]] @@ <<>>]

\* The loop "for row in 1..BUFFER_HEIGHT { for col in 0..BUFFER_WIDTH {..} }"
\* of new_line: chars[row - 1][col] = chars[row][col].  Iteration row reads
\* row `row' before iteration row + 1 overwrites it, and the inner loop
\* covers every column, so each row 0 .. BUFFER_HEIGHT - 2 receives the old
\* content of the row below it and the last row is left as it was.
ShiftRows(w) ==
    IF w.panicked THEN w
    ELSE IF /\ InBounds(1 - 1, 0)
            /\ InBounds(BUFFER_HEIGHT - 1, BUFFER_WIDTH - 1)
    THEN [w EXCEPT !.buffer =
            [r \in Rows |->
                IF r + 1 \in 1 .. (BUFFER_HEIGHT - 1)
                THEN w.buffer[r + 1] ELSE w.buffer[r]] @@ <<>>]
    ELSE [w EXCEPT !.panicked = TRUE]

\* Mutant of AtLastRow: the test is off by one (self.row == BUFFER_HEIGHT).
AtLastRow_OffByOne(w) == w.row = BUFFER_HEIGHT

\* The test "self.row == BUFFER_HEIGHT - 1" of new_line.
AtLastRow(w) == w.row = BUFFER_HEIGHT - 1

\* Mutant of new_line: the column is not reset.
new_line_KeepCol(w) ==
    LET w1 == IF AtLastRow(w)
              THEN LET s == clear_row(ShiftRows(w), BUFFER_HEIGHT - 1)
                   IN  [s EXCEPT !.nscrolls = @ + 1]
              ELSE [w EXCEPT !.row = @ + 1]
    IN  IF w1.panicked THEN w1
        ELSE [w1 EXCEPT !.nbreaks = @ + 1]

\* Writer::new_line
new_line(w) ==
    LET w1 == IF AtLastRow(w)
              THEN LET s == clear_row(ShiftRows(w), BUFFER_HEIGHT - 1)
                   IN  [s EXCEPT !.nscrolls = @ + 1]
              ELSE [w EXCEPT !.row = @ + 1]
    IN  IF w1.panicked THEN w1
        ELSE [w1 EXCEPT !.col = 0, !.nbreaks = @ + 1]

\* Ghost: what one call of write_colored_byte did.  w is the Writer before
\* the call and w2 after it; (wrow, wcol) is the index of the cell write.
Entry(w, w2, byte, wrote, wrow, wcol) ==
    [byte |-> byte, row0 |-> w.row, col0 |-> w.col,
     row1 |-> w2.row, col1 |-> w2.col,
     breaks |-> w2.nbreaks - w.nbreaks,
     scrolls |-> w2.nscrolls - w.nscrolls,
     writes |-> IF wrote THEN 1 ELSE 0,
     wrow |-> wrow, wcol |-> wcol,
     cell |-> IF wrote THEN w2.buffer[wrow][wcol] ELSE 0]

\* Mutants of NeedsWrap: the comparison is > instead of >=; the bound is the
\* index of the last column instead of the width.
NeedsWrap_Gt(w) == w.col > BUFFER_WIDTH
NeedsWrap_LastIndex(w) == w.col >= BUFFER_WIDTH - 1

\* The test "self.col >= BUFFER_WIDTH" of write_colored_byte.
NeedsWrap(w) == w.col >= BUFFER_WIDTH

\* Mutant of write_colored_byte: the column is not advanced after the write.
write_colored_byte_NoAdvance(w, byte, tc, bg) ==
    IF w.panicked THEN w
    ELSE IF byte = NEWLINE
    THEN LET w2 == new_line(w)
         IN  IF w2.panicked THEN w2
             ELSE [w2 EXCEPT !.entries =
                       Append(@, Entry(w, w2, byte, FALSE, 0, 0))]
    ELSE LET w1 == IF NeedsWrap(w) THEN new_line(w) ELSE w
         IN  IF w1.panicked THEN w1
             ELSE IF InBounds(w1.row, w1.col)
             THEN LET w2 == [w1 EXCEPT
                                !.buffer[w1.row][w1.col] =
                                    ScreenChar(byte, ColorCodeNew(tc, bg))]
                  IN  [w2 EXCEPT !.entries =
                           Append(@, Entry(w, w2, byte, TRUE, w1.row, w1.col))]
             ELSE [w1 EXCEPT !.panicked = TRUE]

\* Mutant of write_colored_byte: the line break is made as soon as the write
\* fills the last column, instead of before the next write.
write_colored_byte_EagerWrap(w, byte, tc, bg) ==
    IF w.panicked THEN w
    ELSE IF byte = NEWLINE
    THEN LET w2 == new_line(w)
         IN  IF w2.panicked THEN w2
             ELSE [w2 EXCEPT !.entries =
                       Append(@, Entry(w, w2, byte, FALSE, 0, 0))]
    ELSE IF InBounds(w.row, w.col)
    THEN LET w1 == [w EXCEPT
                       !.buffer[w.row][w.col] =
                           ScreenChar(byte, ColorCodeNew(tc, bg)),
                       !.col = @ + 1]
             w2 == IF NeedsWrap(w1) THEN new_line(w1) ELSE w1
         IN  IF w2.panicked THEN w2
             ELSE [w2 EXCEPT !.entries =
                       Append(@, Entry(w, w2, byte, TRUE, w.row, w.col))]
    ELSE [w EXCEPT !.panicked = TRUE]

\* Writer::write_colored_byte
write_colored_byte(w, byte, tc, bg) ==
    IF w.panicked THEN w
    ELSE IF byte = NEWLINE
    THEN LET w2 == new_line(w)
         IN  IF w2.panicked THEN w2
             ELSE [w2 EXCEPT !.entries =
                       Append(@, Entry(w, w2, byte, FALSE, 0, 0))]
    ELSE LET w1 == IF NeedsWrap(w) THEN new_line(w) ELSE w
         IN  IF w1.panicked THEN w1
             ELSE IF InBounds(w1.row, w1.col)
             THEN LET w2 == [w1 EXCEPT
                                !.buffer[w1.row][w1.col] =
                                    ScreenChar(byte, ColorCodeNew(tc, bg)),
                                !.col = @ + 1]
                  IN  [w2 EXCEPT !.entries =
                           Append(@, Entry(w, w2, byte, TRUE, w1.row, w1.col))]
             ELSE [w1 EXCEPT !.panicked = TRUE]

\* Mutant of write_byte: the default colors are passed the wrong way round.
write_byte_Swapped(w, byte) ==
    write_colored_byte(w, byte, w.background, w.text_color)

\* Writer::write_byte
write_byte(w, byte) == write_colored_byte(w, byte, w.text_color, w.background)

\* The pattern 0x20..=0x7e | b'\n'
IsPrintableOrNewline(byte) ==
    (PRINTABLE_LO <= byte /\ byte <= PRINTABLE_HI) \/ byte = NEWLINE

\* Mutant of SubstColor: Red whatever the background.
SubstColor_AlwaysRed(w) == Red

\* The text color write_string gives a byte that is not printable ASCII.
SubstColor(w) == IF w.background = Red THEN Yellow ELSE Red

\* Mutant of write_string_byte: a byte that is not printable is dropped.
write_string_byte_Drop(w, byte) ==
    IF IsPrintableOrNewline(byte) THEN write_byte(w, byte)
    ELSE w

\* The body of the loop of write_string, for one byte.
write_string_byte(w, byte) ==
    IF IsPrintableOrNewline(byte) THEN write_byte(w, byte)
    ELSE write_colored_byte(w, SUBST, SubstColor(w), w.background)

\* Writer::write_string: "for byte in s.bytes()" over the bytes lo .. hi of s,
\* in order (the range is halved only to keep the evaluation shallow).
RECURSIVE write_string_range(_, _, _, _)
write_string_range(w, s, lo, hi) ==
    IF lo > hi \/ w.panicked THEN w
    ELSE IF lo = hi THEN write_string_byte(w, s[lo])
    ELSE LET mid == (lo + hi) \div 2
         IN  CHOOSE w2 \in {write_string_range(w1, s, mid + 1, hi) :
                             w1 \in {write_string_range(w, s, lo, mid)}} : TRUE

write_string(w, s) == write_string_range(w, s, 1, Len(s))

\* The body of the loop of write_colored_string, for one byte.
write_colored_string_byte(w, byte, tc, bg) ==
    IF IsPrintableOrNewline(byte) THEN write_colored_byte(w, byte, tc, bg)
    ELSE write_colored_byte(w, byte, tc, bg)

\* Writer::write_colored_string: "for byte in s.bytes()" over the bytes
\* lo .. hi of s, in order.
RECURSIVE write_colored_string_range(_, _, _, _, _, _)
write_colored_string_range(w, s, lo, hi, tc, bg) ==
    IF lo > hi \/ w.panicked THEN w
    ELSE IF lo = hi THEN write_colored_string_byte(w, s[lo], tc, bg)
    ELSE LET mid == (lo + hi) \div 2
         IN  write_colored_string_range(
                 write_colored_string_range(w, s, lo, mid, tc, bg),
                 s, mid + 1, hi, tc, bg)

write_colored_string(w, s, tc, bg) ==
    write_colored_string_range(w, s, 1, Len(s), tc, bg)

(***************************************************************************)
(* Inputs.                                                                 *)
(***************************************************************************)
\* n distinct printable bytes: "!\"#$..."
RECURSIVE Ramp(_)
Ramp(n) == IF n = 0 THEN <<>> ELSE Append(Ramp(n - 1), SPACE + n)

\* n newline-terminated lines of distinct content: "Aa\nBb\n..."
RECURSIVE Lines(_)
Lines(n) ==
    IF n = 0 THEN <<>> ELSE Lines(n - 1) \o <<64 + n, 96 + n, NEWLINE>>

\* "Some test string that fits on a single line" (test_println_output)
TestString ==
    <<83, 111, 109, 101, 32, 116, 101, 115, 116, 32, 115, 116, 114, 105, 110,
      103, 32, 116, 104, 97, 116, 32, 102, 105, 116, 115, 32, 111, 110, 32,
      97, 32, 115, 105, 110, 103, 108, 101, 32, 108, 105, 110, 101>>

\* "Wö" as UTF-8, from "Hello Wörld" (main.rs)
Woe == <<87, 195, 182>>

ByteInputs == {NEWLINE, 65, 195}

StrInputs ==
    { Ramp(BUFFER_WIDTH), Ramp(BUFFER_WIDTH - 1),
      Lines(BUFFER_HEIGHT), TestString \o <<NEWLINE>>, Woe }

ColorInputs == { <<Green, Blue>> }

\* The grid is hardware memory: its content when the Writer is created is
\* whatever the firmware left there.
InitBuffer ==
    [r \in Rows |-> [c \in Cols |->
        ScreenChar(48 + ((r + c) % 10), ColorCodeNew(LightGray, Black))]]

(***************************************************************************)
(* The state machine.                                                      *)
(***************************************************************************)
NoOp == [name |-> "none", s |-> <<>>, tc |-> 0, bg |-> 0, rep |-> FALSE]

\* The execution contexts that may call _print, and a context outside
\* _print: pc is its position, mode tells the normal path from the panic
\* handler, guard names the frame of the context that holds a MutexGuard,
\* msg is what write_fmt has still to deliver, done counts the pieces it has
\* delivered and left the calls the normal path may still make.
Ctxs == {1, 2}

IdleCtx ==
    [pc |-> "idle", mode |-> "normal", guard |-> "none", msg |-> <<>>,
     done |-> 0, left |-> MaxPrints]

\* The fields every Writer starts with, whatever its colors.  A Writer used
\* directly is one that exists already and that no context is printing to.
InitCommon ==
    /\ once = "complete"
    /\ locked = FALSE
    /\ ctx = [c \in Ctxs |-> IdleCtx]
    /\ ninit = 1
    /\ row = 0
    /\ col = 0
    /\ buffer = InitBuffer
    /\ panicked = FALSE
    /\ op = NoOp
    /\ log = <<>>
    /\ nops = 0
    /\ nlSeen = 0

\* lazy_static WRITER: row 0, col 0, White on Black.
Init ==
    /\ InitCommon
    /\ text_color = White
    /\ background = Black

\* A Writer built with other default colors: the colors are fields of the
\* struct, and write_string tells a Red background from the others.
InitAnyWriter ==
    /\ InitCommon
    /\ text_color = White
    /\ background \in {Black, Red}

CountNL(s) == Cardinality({i \in 1 .. Len(s) : s[i] = NEWLINE})

Min(a, b) == IF a < b THEN a ELSE b

\* Store the Writer w2 and the ghost record of the operation (rep: the
\* operation before it was the same call).
Commit(w2, name, s, tc, bg) ==
    /\ row' = w2.row
    /\ col' = w2.col
    /\ text_color' = w2.text_color
    /\ background' = w2.background
    /\ buffer' = w2.buffer
    /\ panicked' = w2.panicked
    /\ op' = [name |-> name, s |-> s, tc |-> tc, bg |-> bg,
              rep |-> (op.name = name /\ op.s = s)]
    /\ log' = w2.entries
    /\ nops' = nops + 1
    /\ nlSeen' = Min(nlSeen + CountNL(op.s), BUFFER_HEIGHT)

Enabled == ~panicked /\ nops < MaxOps

WriteByte ==
    \E b \in ByteInputs :
        /\ Enabled
        /\ Commit(write_byte(Self, b), "write_byte", <<b>>,
                  text_color, background)
        /\ UNCHANGED lockvars

WriteColoredByte ==
    \E b \in ByteInputs, cp \in ColorInputs :
        /\ Enabled
        /\ Commit(write_colored_byte(Self, b, cp[1], cp[2]),
                  "write_colored_byte", <<b>>, cp[1], cp[2])
        /\ UNCHANGED lockvars

WriteString ==
    \E s \in StrInputs :
        /\ Enabled
        /\ Commit(write_string(Self, s), "write_string", s,
                  text_color, background)
        /\ UNCHANGED lockvars

WriteColoredString ==
    \E s \in StrInputs, cp \in ColorInputs :
        /\ Enabled
        /\ Commit(write_colored_string(Self, s, cp[1], cp[2]),
                  "write_colored_string", s, cp[1], cp[2])
        /\ UNCHANGED lockvars

Next ==
    \/ WriteByte
    \/ WriteColoredByte
    \/ WriteString
    \/ WriteColoredString

Spec == Init /\ [][Next]_vars

SpecAnyWriter == InitAnyWriter /\ [][Next]_vars

\* ColorCode::new over its whole domain: a Writer with any of the 16 x 16
\* default color pairs, written to by write_byte.
InitCodec ==
    /\ InitCommon
    /\ text_color \in Color
    /\ background \in Color

NextCodec == WriteByte

SpecCodec == InitCodec /\ [][NextCodec]_vars

\* Writer::clear_row called on its own, for a row of the grid.
ClearRowInputs == {0, 12, BUFFER_HEIGHT - 1}

ClearRow ==
    \E r \in ClearRowInputs :
        /\ Enabled
        /\ Commit(clear_row(Self, r), "clear_row", <<r>>,
                  text_color, background)
        /\ UNCHANGED lockvars

NextClear ==
    \/ WriteString
    \/ ClearRow

SpecClear == Init /\ [][NextClear]_vars

(***************************************************************************)
(* The global WRITER, _print and the panic handler.                        *)
(*                                                                         *)
(* WRITER is a lazy_static: its initializer runs under a spin::Once, whose *)
(* state is once.  The Writer lives in a spin::Mutex, whose flag is locked.*)
(* _print is `WRITER.lock().write_fmt(args).unwrap()`: one access to the   *)
(* static, one acquisition, one write_str per piece of the formatted       *)
(* message, and the guard is dropped at the end of the statement.  A       *)
(* formatting error makes unwrap panic inside that statement; the panic    *)
(* handler of main.rs prints the panic with println and then loops, and    *)
(* never returns, so the guard of the interrupted statement is not dropped.*)
(***************************************************************************)

\* One delivery of write_fmt to the Writer: a string for write_str, or the
\* error that a Display implementation returned.
Piece(s) == [err |-> FALSE, s |-> s]
FmtError == [err |-> TRUE, s |-> <<>>]

\* println!("{}ö", c) of context c, as the pieces write_fmt delivers.
OkMsg(c) == <<Piece(<<48 + c, 195, 182>>), Piece(<<NEWLINE>>)>>

\* A message whose argument fails to format after its first piece.
BadMsg(c) == <<Piece(<<64 + c>>), FmtError>>

\* println!("{}", info) of the panic handler.
PanicMsg == <<Piece(<<80, 33>>), Piece(<<NEWLINE>>)>>

Msgs(c) == {OkMsg(c), BadMsg(c)}

\* The Writer the initializer of WRITER builds.
WriterNew_Row1 ==
    [row |-> 1, col |-> 0, text_color |-> White, background |-> Black]

WriterNew ==
    [row |-> 0, col |-> 0, text_color |-> White, background |-> Black]

\* spin::Once: an access runs the initializer only if nobody has started it.
OnceMayStart_Racy == once # "complete"

OnceMayStart == once = "incomplete"

\* spin::Mutex: the compare-exchange of lock() succeeds only on a free lock,
\* whoever the caller is.
LockFree_Always(c) == TRUE

LockFree_Reentrant(c) == ~locked \/ ctx[c].guard # "none"

LockFree(c) == ~locked

\* The state before anything touched WRITER: no Writer exists yet.
InitLock ==
    /\ row = 0
    /\ col = 0
    /\ text_color = Black
    /\ background = Black
    /\ buffer = InitBuffer
    /\ panicked = FALSE
    /\ op = NoOp
    /\ log = <<>>
    /\ nops = 0
    /\ nlSeen = 0
    /\ once = "incomplete"
    /\ locked = FALSE
    /\ ctx = [c \in Ctxs |-> IdleCtx]
    /\ ninit = 0

writervars == <<row, col, text_color, background, buffer, panicked,
                op, log, nops, nlSeen>>

\* Context c calls print!/println! from the normal path.
Call(c) ==
    /\ ctx[c].pc = "idle"
    /\ ctx[c].mode = "normal"
    /\ ctx[c].left > 0
    /\ \E m \in Msgs(c) :
           ctx' = [ctx EXCEPT ![c].pc = "access", ![c].msg = m,
                              ![c].done = 0, ![c].left = @ - 1]
    /\ UNCHANGED <<once, locked, ninit>>
    /\ UNCHANGED writervars

\* Context c panics outside _print: the handler starts its println.
PanicOutside(c) ==
    /\ ctx[c].pc = "idle"
    /\ ctx[c].mode = "normal"
    /\ ctx' = [ctx EXCEPT ![c].pc = "access", ![c].mode = "panic",
                          ![c].msg = PanicMsg, ![c].done = 0]
    /\ UNCHANGED <<once, locked, ninit>>
    /\ UNCHANGED writervars

\* The dereference of WRITER: start the initializer, wait for the one that
\* is running, or go on with the existing instance.
Access(c) ==
    /\ ctx[c].pc = "access"
    /\ IF OnceMayStart
       THEN /\ once' = "running"
            /\ ctx' = [ctx EXCEPT ![c].pc = "initing"]
       ELSE /\ once = "complete"
            /\ once' = once
            /\ ctx' = [ctx EXCEPT ![c].pc = "spin"]
    /\ UNCHANGED <<locked, ninit>>
    /\ UNCHANGED writervars

\* The initializer of WRITER builds the Writer and completes the Once.
RunInit(c) ==
    /\ ctx[c].pc = "initing"
    /\ row' = WriterNew.row
    /\ col' = WriterNew.col
    /\ text_color' = WriterNew.text_color
    /\ background' = WriterNew.background
    /\ once' = "complete"
    /\ ninit' = ninit + 1
    /\ ctx' = [ctx EXCEPT ![c].pc = "spin"]
    /\ UNCHANGED <<buffer, panicked, op, log, nops, nlSeen, locked>>

\* One successful round of the spin loop of lock().
TryLock(c) ==
    /\ ctx[c].pc = "spin"
    /\ LockFree(c)
    /\ locked' = TRUE
    /\ ctx' = [ctx EXCEPT ![c].pc = "held", ![c].guard = ctx[c].mode]
    /\ UNCHANGED <<once, ninit>>
    /\ UNCHANGED writervars

\* write_fmt delivers the next piece: Writer::write_str, that is write_string.
WriteStr(c) ==
    /\ ctx[c].pc = "held"
    /\ ctx[c].msg # <<>>
    /\ ~Head(ctx[c].msg).err
    /\ ~panicked
    /\ \E w2 \in {write_string(Self, Head(ctx[c].msg).s)} :
           Commit(w2, "write_string", Head(ctx[c].msg).s,
                  text_color, background)
    /\ ctx' = [ctx EXCEPT ![c].msg = Tail(@), ![c].done = @ + 1]
    /\ UNCHANGED <<once, locked, ninit>>

\* write_fmt returns the error and unwrap panics inside the statement of
\* _print: the handler starts on the same context, above the frame that
\* still owns the guard.
FmtFail_Unwind(c) ==
    /\ ctx[c].pc = "held"
    /\ ctx[c].msg # <<>>
    /\ Head(ctx[c].msg).err
    /\ ctx[c].mode = "normal"
    /\ locked' = FALSE
    /\ ctx' = [ctx EXCEPT ![c].pc = "access", ![c].mode = "panic",
                          ![c].guard = "none",
                          ![c].msg = PanicMsg, ![c].done = 0]
    /\ UNCHANGED <<once, ninit>>
    /\ UNCHANGED writervars

FmtFail(c) ==
    /\ ctx[c].pc = "held"
    /\ ctx[c].msg # <<>>
    /\ Head(ctx[c].msg).err
    /\ ctx[c].mode = "normal"
    /\ ctx' = [ctx EXCEPT ![c].pc = "access", ![c].mode = "panic",
                          ![c].msg = PanicMsg, ![c].done = 0]
    /\ UNCHANGED <<once, locked, ninit>>
    /\ UNCHANGED writervars

\* The statement of _print ends: the guard is dropped.  The normal path
\* returns to its caller, the panic handler goes on to `loop {}`.
Release_KeepLocked(c) ==
    /\ ctx[c].pc = "held"
    /\ ctx[c].msg = <<>>
    /\ locked' = locked
    /\ ctx' = [ctx EXCEPT ![c].guard = "none",
                          ![c].pc = IF ctx[c].mode = "panic"
                                    THEN "halt" ELSE "idle"]
    /\ UNCHANGED <<once, ninit>>
    /\ UNCHANGED writervars

Release(c) ==
    /\ ctx[c].pc = "held"
    /\ ctx[c].msg = <<>>
    /\ locked' = FALSE
    /\ ctx' = [ctx EXCEPT ![c].guard = "none",
                          ![c].pc = IF ctx[c].mode = "panic"
                                    THEN "halt" ELSE "idle"]
    /\ UNCHANGED <<once, ninit>>
    /\ UNCHANGED writervars

\* What a context does once it is inside _print.
Progress(c) ==
    \/ Access(c)
    \/ RunInit(c)
    \/ TryLock(c)
    \/ WriteStr(c)
    \/ FmtFail(c)
    \/ Release(c)

NextLock ==
    \E c \in Ctxs :
        \/ Call(c)
        \/ PanicOutside(c)
        \/ Progress(c)

SpecLock == InitLock /\ [][NextLock]_vars

\* Every context is a running processor: inside _print it takes its next
\* step whenever that step stays possible.
SpecLockFair ==
    /\ InitLock
    /\ [][NextLock]_vars
    /\ \A c \in Ctxs : WF_vars(Progress(c))

(***************************************************************************)
(* Vocabulary of the properties.                                           *)
(***************************************************************************)
LastRow == BUFFER_HEIGHT - 1

IsPrintable(b) == PRINTABLE_LO <= b /\ b <= PRINTABLE_HI

\* The packed color byte of the Writer's default colors, and a blank cell.
DefaultColor == 16 * background + text_color
BlankCell == SPACE + 256 * DefaultColor

\* The last operation wrote one byte / a string.
ByteOp == op.name \in {"write_byte", "write_colored_byte"}
StringOp == op.name \in {"write_string", "write_colored_string"}

\* The last operation ran to its end: one log entry per input byte.
Completed == ~panicked /\ Len(log) = Len(op.s)

\* s is one printable line of fewer than BUFFER_WIDTH bytes and its newline.
IsShortLine(s) ==
    /\ Len(s) >= 2 /\ Len(s) - 1 < BUFFER_WIDTH
    /\ s[Len(s)] = NEWLINE
    /\ \A i \in 1 .. (Len(s) - 1) : IsPrintable(s[i])

\* C1: after any sequence of write_byte, write_colored_byte, write_string and
\* write_colored_string calls from row 0, column 0, row is in [0, 24], column
\* in [0, 80], and every cell access has a row index < 25 and a column index
\* < 80: no index panic ever happens.
C1_CursorAndAccessInBounds ==
    /\ ~panicked
    /\ row \in 0 .. (BUFFER_HEIGHT - 1)
    /\ col \in 0 .. BUFFER_WIDTH
    /\ \A i \in 1 .. Len(log) :
          log[i].writes = 1 =>
              log[i].wrow \in 0 .. 24 /\ log[i].wcol \in 0 .. 79

\* A byte arrived with column 80 on the last row: it wrapped, scrolled, and
\* the operation ended with the column at 80 again.
C1_Witness ==
    /\ col = BUFFER_WIDTH /\ row = LastRow
    /\ \E i \in 1 .. Len(log) :
          log[i].col0 = BUFFER_WIDTH /\ log[i].scrolls = 1 /\ log[i].writes = 1

\* C2: after at least 25 newline-terminated lines, printing a printable
\* single-line string S of fewer than 80 bytes and its newline leaves S,
\* character for character, in columns 0..len(S)-1 of row 23 and the writer
\* at row 24, column 0.
C2_LineLandsInSecondToLastRow ==
    (/\ StringOp /\ IsShortLine(op.s)
     /\ nlSeen >= BUFFER_HEIGHT
     /\ Len(log) >= 1 /\ log[1].col0 = 0)
    => /\ row = 24 /\ col = 0
       /\ \A i \in 1 .. (Len(op.s) - 1) :
             ascii_char(buffer[BUFFER_HEIGHT - 2][i - 1]) = op.s[i]

C2_Witness ==
    /\ op.name = "write_string" /\ op.s = TestString \o <<NEWLINE>>
    /\ nlSeen >= BUFFER_HEIGHT /\ Completed /\ log[1].col0 = 0
    /\ ascii_char(buffer[BUFFER_HEIGHT - 2][0]) = TestString[1]

\* C3: writing the newline byte sets column to 0 and writes no cell for the
\* newline; with row < 24 it adds exactly 1 to row and changes no grid cell,
\* with row = 24 it leaves row at 24 and scrolls (every row takes the content
\* of the row below it).
C3_NewlineByte ==
    [][ (ByteOp' /\ op'.s = <<NEWLINE>>)
        => /\ col' = 0
           /\ Len(log') = 1 /\ log'[1].writes = 0 /\ log'[1].breaks = 1
           /\ IF row < 24
              THEN row' = row + 1 /\ buffer' = buffer /\ log'[1].scrolls = 0
              ELSE /\ row' = 24 /\ log'[1].scrolls = 1
                   /\ \A r \in 1 .. 24 : buffer'[r - 1] = buffer[r] ]_vars

C3_Witness ==
    /\ ByteOp /\ op.s = <<NEWLINE>> /\ Completed
    /\ log[1].row0 = LastRow /\ log[1].col0 > 0
    /\ row = LastRow /\ col = 0

\* C4: when new_line runs with row = 24, the cell at (r-1, c) after the
\* scroll is the cell (ASCII byte and color) that was at (r, c) before it,
\* for every r in [1, 24] and every c; the old row 0 is gone; and every cell
\* of row 24 is an ASCII space in the writer's default colors, whatever
\* colors the write that triggered the scroll was given (the byte of that
\* write, if it is not a newline, is then put in its cell of row 24).
C4_ScrollShiftsAndBlanks ==
    [][ (ByteOp' /\ Len(log') = 1 /\ log'[1].scrolls = 1)
        => /\ \A r \in 1 .. 24 : \A c \in 0 .. 79 :
                 buffer'[r - 1][c] = buffer[r][c]
           /\ \A c \in 0 .. 79 :
                 \/ buffer'[24][c] = BlankCell
                 \/ /\ log'[1].writes = 1 /\ log'[1].wrow = 24
                    /\ c = log'[1].wcol
           /\ text_color' = text_color /\ background' = background ]_vars

\* A byte written with custom colors at column 80 of row 24 scrolled.
C4_Witness ==
    /\ op.name = "write_colored_byte" /\ op.s # <<NEWLINE>>
    /\ op.tc # text_color /\ op.bg # background
    /\ Completed /\ log[1].scrolls = 1 /\ log[1].writes = 1
    /\ buffer[24][1] = BlankCell

\* C5: write_string renders every byte outside [0x20, 0x7e] other than
\* newline as the cell with ASCII code 0xFE, the writer's background, and
\* foreground Yellow if that background is Red and Red otherwise; it writes
\* every byte of [0x20, 0x7e] unchanged in the default colors.
C5_WriteStringSubstitution ==
    op.name = "write_string"
    => /\ Completed
       /\ \A i \in 1 .. Len(op.s) :
             IF IsPrintable(op.s[i])
             THEN /\ log[i].writes = 1
                  /\ ascii_char(log[i].cell) = op.s[i]
                  /\ color(log[i].cell) = DefaultColor
             ELSE op.s[i] # NEWLINE
                  => /\ log[i].writes = 1
                     /\ ascii_char(log[i].cell) = 254
                     /\ color(log[i].cell) \div 16 = background
                     /\ color(log[i].cell) % 16 =
                            (IF background = Red THEN Yellow ELSE Red)

\* "Wö" went through write_string on a Red background: two Yellow glyphs.
C5_Witness ==
    /\ op.name = "write_string" /\ op.s = Woe /\ background = Red
    /\ Completed
    /\ ascii_char(log[2].cell) = 254 /\ color(log[2].cell) % 16 = Yellow

\* C6: string writing with caller-supplied colors never writes a byte
\* outside [0x20, 0x7e] verbatim: every cell a string-writing operation
\* writes holds an ASCII code in [0x20, 0x7e] or the glyph 0xFE.
C6_StringCellsPrintableOrGlyph ==
    StringOp
    => \A i \in 1 .. Len(log) :
          log[i].writes = 1
          => \/ IsPrintable(ascii_char(log[i].cell))
             \/ ascii_char(log[i].cell) = 254

\* C7 as stated: a non-newline byte written with the column at or past
\* index 79 causes a line break first and is written at column 0 of the new
\* row, leaving column 1.
C7_WrapAtIndex79 ==
    \A i \in 1 .. Len(log) :
        (log[i].byte # NEWLINE /\ log[i].col0 >= 79)
        => /\ log[i].breaks = 1
           /\ log[i].writes = 1 /\ log[i].wcol = 0
           /\ log[i].col1 = 1

\* C7 as amended: a non-newline byte written with the column past the last
\* column (column = 80) causes one line break first and is written at column
\* 0 of the new cursor row, leaving column 1; with the column at most 79
\* (79 included) it is written at the cursor with no line break and the
\* column advances by 1.
C7_WrapAtColumn80 ==
    \A i \in 1 .. Len(log) :
        log[i].byte # NEWLINE
        => IF log[i].col0 >= 80
           THEN /\ log[i].breaks = 1
                /\ log[i].writes = 1 /\ log[i].wcol = 0
                /\ log[i].wrow = log[i].row1
                /\ log[i].row1 = (IF log[i].row0 = 24 THEN 24
                                  ELSE log[i].row0 + 1)
                /\ log[i].col1 = 1
           ELSE /\ log[i].breaks = 0
                /\ log[i].writes = 1
                /\ log[i].wcol = log[i].col0 /\ log[i].wrow = log[i].row0
                /\ log[i].row1 = log[i].row0
                /\ log[i].col1 = log[i].col0 + 1

\* One byte was written with the column at 80 and row below 24.
C7_Witness ==
    /\ ByteOp /\ op.s # <<NEWLINE>> /\ Completed
    /\ log[1].col0 = BUFFER_WIDTH /\ log[1].row0 < LastRow
    /\ col = 1 /\ row = log[1].row0 + 1
    /\ ascii_char(buffer[row][0]) = op.s[1]

\* C8: from column 0, writing n < 80 printable bytes (no newline) leaves row
\* unchanged, sets column to n and puts the bytes in order in columns
\* 0..n-1 of the current row.
C8_ShortRunStaysOnRow ==
    (/\ op.name # "none" /\ Len(op.s) < BUFFER_WIDTH
     /\ \A i \in 1 .. Len(op.s) : IsPrintable(op.s[i])
     /\ Len(log) >= 1 /\ log[1].col0 = 0)
    => /\ Completed
       /\ row = log[1].row0
       /\ col = Len(op.s)
       /\ \A i \in 1 .. Len(op.s) :
             ascii_char(buffer[row][i - 1]) = op.s[i]

\* 79 distinct printable bytes were written from column 0 of a row below
\* the first.
C8_Witness ==
    /\ StringOp /\ op.s = Ramp(BUFFER_WIDTH - 1) /\ Completed
    /\ log[1].col0 = 0 /\ log[1].row0 > 0
    /\ col = BUFFER_WIDTH - 1

\* C9 as stated: every byte write_string processes causes exactly one of a
\* single cell write and a single line break, never both and never neither.
C9_ExactlyOneEffect ==
    op.name = "write_string"
    => /\ Len(log) = Len(op.s)
       /\ \A i \in 1 .. Len(log) : log[i].writes + log[i].breaks = 1

\* C9 as amended: every byte write_string processes causes a single line
\* break and no cell write (a newline), or a single cell write and no line
\* break (any other byte, column below 80), or, for a byte other than newline
\* arriving with the column at 80, a single line break followed by a single
\* cell write; never neither.
C9_OneEffectOrWrapThenWrite ==
    op.name = "write_string"
    => /\ Len(log) = Len(op.s)
       /\ \A i \in 1 .. Len(log) :
             \/ /\ op.s[i] = NEWLINE
                /\ log[i].breaks = 1 /\ log[i].writes = 0
             \/ /\ op.s[i] # NEWLINE /\ log[i].col0 < 80
                /\ log[i].breaks = 0 /\ log[i].writes = 1
             \/ /\ op.s[i] # NEWLINE /\ log[i].col0 = 80
                /\ log[i].breaks = 1 /\ log[i].writes = 1

\* write_string received a byte with the column at 80, after bytes that
\* each had one effect.
C9_Witness ==
    /\ op.name = "write_string" /\ Completed
    /\ \E i \in 1 .. Len(log) :
          log[i].col0 = 80 /\ log[i].breaks = 1 /\ log[i].writes = 1
    /\ \E i \in 1 .. Len(log) : log[i].breaks = 0 /\ log[i].writes = 1
    /\ \E i \in 1 .. Len(log) : log[i].breaks = 1 /\ log[i].writes = 0

\* The first operation on the initial writer wrote exactly 25
\* newline-terminated lines of distinct content.
TwentyFiveLinesFromStart ==
    nops = 1 /\ StringOp /\ op.s = Lines(BUFFER_HEIGHT)

\* Line i of Lines(n) is in row r, from column 0.
LineInRow(i, r) ==
    /\ ascii_char(buffer[r][0]) = 64 + i
    /\ ascii_char(buffer[r][1]) = 96 + i

\* C10 as stated: from row 0, column 0, writing exactly 25 newline-terminated
\* lines of distinct content triggers zero scrolls and leaves all 25 lines
\* visible, line i in row i-1.
C10_TwentyFiveLinesNoScroll ==
    TwentyFiveLinesFromStart
    => /\ \A k \in 1 .. Len(log) : log[k].scrolls = 0
       /\ \A i \in 1 .. 25 : LineInRow(i, i - 1)

\* C10 as amended: from row 0, column 0, writing exactly 25 newline-terminated
\* lines of distinct content triggers exactly one scroll, at the newline of
\* the 25th line (the first 24 lines trigger none); line 1 is discarded,
\* lines 2..25 are visible, line i in row i-2, row 24 is blank and the writer
\* is at row 24, column 0.
C10_TwentyFiveLinesOneScroll ==
    TwentyFiveLinesFromStart
    => /\ Completed
       /\ \A k \in 1 .. Len(log) :
             log[k].scrolls = (IF k = Len(log) THEN 1 ELSE 0)
       /\ \A i \in 2 .. 25 : LineInRow(i, i - 2)
       /\ \A r \in 0 .. 24 : ~LineInRow(1, r)
       /\ \A c \in 0 .. 79 : buffer[24][c] = BlankCell
       /\ row = 24 /\ col = 0

C10_Witness ==
    /\ TwentyFiveLinesFromStart /\ Completed
    /\ log[1].row0 = 0 /\ log[1].col0 = 0
    /\ LineInRow(25, 23)

\* C18: writing a non-newline byte with colors (fg, bg) while column < 80
\* changes exactly one grid cell, the one at the cursor position before the
\* write, to that byte with the packed color of (fg, bg); it advances column
\* by 1 and leaves row, the default colors and every other cell unchanged.
C18_ByteWriteFrame ==
    [][ (ByteOp' /\ op'.s # <<NEWLINE>> /\ col < 80)
        => /\ buffer'[row][col] = op'.s[1] + 256 * (16 * op'.bg + op'.tc)
           /\ \A r \in 0 .. 24 : \A c \in 0 .. 79 :
                 (r # row \/ c # col) => buffer'[r][c] = buffer[r][c]
           /\ col' = col + 1 /\ row' = row
           /\ text_color' = text_color /\ background' = background ]_vars

\* A byte was written with custom colors in the last column of a row, over
\* a cell that held something else.
C18_Witness ==
    /\ op.name = "write_colored_byte" /\ op.s # <<NEWLINE>> /\ Completed
    /\ log[1].col0 = 79 /\ col = 80
    /\ buffer[row][79] = op.s[1] + 256 * (16 * op.bg + op.tc)
    /\ op.tc # text_color /\ op.bg # background

\* C20: wrapping is deferred.  After exactly 80 non-newline bytes written
\* from column 0 the cursor is still on that row, with column 80; a newline
\* byte arriving with column 80 makes exactly one line break (one row more,
\* or one scroll at row 24) and writes no cell, so a full-width line and its
\* newline leave no extra blank row.
C20_DeferredWrap ==
    /\ (/\ op.name # "none" /\ Len(op.s) = 80
        /\ \A i \in 1 .. Len(op.s) : op.s[i] # NEWLINE
        /\ Len(log) >= 1 /\ log[1].col0 = 0)
       => /\ Completed
          /\ row = log[1].row0 /\ col = 80
          /\ \A i \in 1 .. Len(log) :
                log[i].breaks = 0 /\ log[i].wrow = row /\ log[i].wcol = i - 1
    /\ \A i \in 1 .. Len(log) :
          (log[i].byte = NEWLINE /\ log[i].col0 = 80)
          => /\ log[i].breaks = 1 /\ log[i].writes = 0
             /\ log[i].col1 = 0
             /\ IF log[i].row0 = 24
                THEN log[i].row1 = 24 /\ log[i].scrolls = 1
                ELSE log[i].row1 = log[i].row0 + 1 /\ log[i].scrolls = 0

\* A newline arrived with the column at 80, after a full-width line.
C20_Witness ==
    /\ ByteOp /\ op.s = <<NEWLINE>> /\ Completed
    /\ log[1].col0 = 80 /\ log[1].row0 < 24
    /\ row = log[1].row0 + 1 /\ col = 0
    /\ ascii_char(buffer[row - 1][79]) = SPACE + 80

\* C16: for all 16 x 16 pairs (fg, bg), the byte ColorCode::new packs has
\* bg's code in its high nibble and fg's code in its low nibble: byte / 16
\* and byte % 16 give the pair back, the byte is in [0, 255], and no other
\* pair gives the same byte.
C16_ColorCodeRoundTrip ==
    (op.name = "write_byte" /\ op.s # <<NEWLINE>> /\ Completed)
    => LET k == color(log[1].cell)
       IN  /\ k \in 0 .. 255
           /\ k \div 16 = background
           /\ k % 16 = text_color
           /\ \A f2 \in 0 .. 15 : \A b2 \in 0 .. 15 :
                 ColorCodeNew(f2, b2) = k
                 => f2 = text_color /\ b2 = background

\* A cell was written in Yellow on White: the color byte is 0xFE.
C16_Witness ==
    /\ op.name = "write_byte" /\ op.s # <<NEWLINE>> /\ Completed
    /\ text_color = Yellow /\ background = White
    /\ color(log[1].cell) = 254

\* C17: clear_row is idempotent.  For any row in [0, 24] and any grid,
\* clearing the row fills it with blank cells, changes no cell of another
\* row and changes neither row nor column of the cursor; clearing it again
\* at once changes nothing at all.
C17_ClearRowIdempotent ==
    [][ op'.name = "clear_row"
        => /\ ~panicked'
           /\ \A c \in 0 .. 79 : buffer'[op'.s[1]][c] = BlankCell
           /\ \A r \in 0 .. 24 : r # op'.s[1] => buffer'[r] = buffer[r]
           /\ row' = row /\ col' = col
           /\ (op.name = "clear_row" /\ op.s = op'.s) => buffer' = buffer
           /\ clear_row(clear_row(Self, op'.s[1]), op'.s[1]).buffer = buffer'
      ]_vars

\* A row that held text was cleared twice in succession.
C17_Witness ==
    /\ op.name = "clear_row" /\ op.rep /\ ~panicked
    /\ row > 0
    /\ \A c \in 0 .. 79 : buffer[op.s[1]][c] = BlankCell

(***************************************************************************)
(* Vocabulary of the properties about the global WRITER.                   *)
(***************************************************************************)
\* Some frame of context c owns a guard of the lock.
HoldsGuard(c) == ctx[c].guard # "none"

\* The running frame of context c is inside its statement of _print with
\* the guard in hand.
Printing(c) == ctx[c].pc = "held" /\ ctx[c].guard = ctx[c].mode

\* Context c has delivered a part of its message and not yet the rest.
InMessage(c) == Printing(c) /\ ctx[c].done > 0 /\ ctx[c].msg # <<>>

\* The panic handler of context c runs above a frame that owns the guard.
Stuck(c) == ctx[c].mode = "panic" /\ ctx[c].guard = "normal"

\* C11: at most one flow of control holds the WRITER lock; the flag is set
\* exactly while a guard exists; a step that changes row, column or grid is
\* taken by a context that holds the guard before and after it, while no
\* other context holds one or is part-way through a message, so two
\* messages never interleave.
C11_LockSerializesPrint ==
    /\ [](/\ Cardinality({c \in Ctxs : HoldsGuard(c)}) <= 1
          /\ locked <=> (\E c \in Ctxs : HoldsGuard(c))
          /\ \A c \in Ctxs : ctx[c].pc = "held" => Printing(c)
          /\ Cardinality({c \in Ctxs : InMessage(c)}) <= 1)
    /\ [][<<row, col, buffer>>' # <<row, col, buffer>> =>
            \E c \in Ctxs :
                /\ Printing(c)
                /\ ctx'[c].pc = "held"
                /\ ctx'[c].guard = ctx[c].guard
                /\ locked /\ locked'
                /\ \A d \in Ctxs \ {c} :
                       ~HoldsGuard(d) /\ ~InMessage(d) /\ ctx'[d] = ctx[d]]_vars

\* One context is between two pieces of its message while the other one
\* spins on the lock.
C11_Witness ==
    \E c \in Ctxs : \E d \in Ctxs \ {c} :
        /\ InMessage(c)
        /\ locked
        /\ ctx[d].pc = "spin"
        /\ col > 0

\* C12: once the panic handler runs on a context whose interrupted _print
\* still owns the guard, that stays so for ever: the handler's println is on
\* its way to the lock or spinning on it and never holds it, the lock stays
\* taken, and no step changes the grid or the cursor.
C12_PanicWhileHoldingSpinsForever ==
    /\ [](\A c \in Ctxs :
              Stuck(c) => locked /\ ctx[c].pc \in {"access", "spin"})
    /\ [][\A c \in Ctxs :
              Stuck(c) =>
                  /\ Stuck(c)'
                  /\ locked'
                  /\ ctx'[c].pc \in {"access", "spin"}
                  /\ buffer' = buffer
                  /\ row' = row
                  /\ col' = col]_vars

\* The handler of one context spins above its own guard, and the other
\* context, which called _print afterwards, spins as well.
C12_Witness ==
    \E c \in Ctxs : \E d \in Ctxs \ {c} :
        /\ Stuck(c)
        /\ ctx[c].pc = "spin"
        /\ ctx[d].pc = "spin"
        /\ ctx[d].mode = "normal"

\* Context c waits in the spin loop of lock().
Spinning(c) == ctx[c].pc = "spin"

\* C13 as stated: every caller of _print that reaches the lock eventually
\* acquires it, and every holder of a guard eventually releases it.
C13_EveryCallerAcquires ==
    \A c \in Ctxs :
        /\ Spinning(c) ~> Printing(c)
        /\ HoldsGuard(c) ~> ~HoldsGuard(c)

\* C13 amended: a caller at the lock eventually acquires it, and a holder
\* eventually releases it, unless some context has panicked inside _print
\* with the guard in hand; the other contexts make finitely many calls.
C13_AcquiresUnlessPanicInsidePrint ==
    \A c \in Ctxs :
        /\ Spinning(c) ~> (Printing(c) \/ \E d \in Ctxs : Stuck(d))
        /\ HoldsGuard(c) ~> (~HoldsGuard(c) \/ Stuck(c))

\* A caller spins on the lock while the other context, on its normal path,
\* is part-way through its message.
C13_Witness ==
    \E c \in Ctxs : \E d \in Ctxs \ {c} :
        /\ Spinning(c)
        /\ InMessage(d)
        /\ ctx[d].mode = "normal"
        /\ ~Head(ctx[d].msg).err
        /\ ctx[c].left = 0

\* C14: the initializer of WRITER runs at most once, and has run exactly
\* once as soon as the static is ready; the step that runs it leaves row 0,
\* column 0, White on Black; a ready static stays ready; and once it is
\* ready, only a write_str of a _print call changes the Writer, so that each
\* call starts at the cursor the previous one left.
C14_WriterConstructedOnce ==
    /\ [](/\ ninit <= 1
          /\ once = "complete" <=> ninit = 1
          /\ \A c \in Ctxs : ctx[c].pc \in {"spin", "held"} => ninit = 1
          /\ once = "complete" => text_color = White /\ background = Black)
    /\ [][/\ ninit' # ninit =>
                 /\ ninit = 0
                 /\ row' = 0 /\ col' = 0
                 /\ text_color' = White /\ background' = Black
                 /\ buffer' = buffer
          /\ once = "complete" =>
                 /\ once' = "complete"
                 /\ nops' = nops =>
                        UNCHANGED <<row, col, text_color, background, buffer>>
                 /\ nops' # nops =>
                        /\ log'[1].row0 = row
                        /\ log'[1].col0 = col]_vars

\* Both contexts raced for the first access, one of them ran the
\* initializer, both have printed since, and the next call is about to write
\* at the cursor left below row 0.
C14_Witness ==
    /\ ninit = 1
    /\ row > 0
    /\ \A c \in Ctxs : ctx[c].left < MaxPrints
    /\ \E c \in Ctxs :
           /\ Printing(c)
           /\ ctx[c].done = 0
           /\ ctx[c].left = 0

\* C15: the global Writer is White on Black from its construction on and no
\* step changes that; no operation of the Writer, applied to any state
\* _print reaches, returns other default colors; and every cell a write_str
\* of _print writes is White on Black, or is the glyph 0xFE for a byte
\* outside [0x20, 0x7e], in another foreground on the Black background.
C15_PrintUsesDefaultColors ==
    /\ [](once = "complete" =>
            /\ text_color = White /\ background = Black
            /\ \A b \in ByteInputs :
                   /\ write_byte(Self, b).text_color = text_color
                   /\ write_byte(Self, b).background = background
                   /\ \A cp \in ColorInputs :
                          /\ write_colored_byte(Self, b, cp[1], cp[2]).text_color
                                 = text_color
                          /\ write_colored_byte(Self, b, cp[1], cp[2]).background
                                 = background
            /\ write_string(Self, Woe).text_color = text_color
            /\ write_string(Self, Woe).background = background
            /\ \A cp \in ColorInputs :
                   /\ write_colored_string(Self, Woe, cp[1], cp[2]).text_color
                          = text_color
                   /\ write_colored_string(Self, Woe, cp[1], cp[2]).background
                          = background
            /\ new_line(Self).text_color = text_color
            /\ new_line(Self).background = background
            /\ clear_row(Self, row).text_color = text_color
            /\ clear_row(Self, row).background = background
            /\ op.name = "write_string" =>
                   \A i \in 1 .. Len(log) :
                       log[i].writes = 1 =>
                           \/ color(log[i].cell) = 16 * Black + White
                           \/ /\ ~IsPrintable(log[i].byte)
                              /\ ascii_char(log[i].cell) = SUBST
                              /\ color(log[i].cell) \div 16 = Black)
    /\ [][once = "complete" =>
              text_color' = text_color /\ background' = background]_vars

\* A context is between the pieces of println!("{}ö", c): the digit went to
\* the grid White on Black, the two bytes of "ö" as Red glyphs on Black.
C15_Witness ==
    /\ \E c \in Ctxs : InMessage(c) /\ ctx[c].mode = "normal"
    /\ op.name = "write_string"
    /\ Len(log) = 3
    /\ IsPrintable(log[1].byte)
    /\ color(log[1].cell) = 16 * Black + White
    /\ ascii_char(log[2].cell) = SUBST
    /\ color(log[2].cell) = 16 * Black + Red

\* Formatting is about to fail in the _print call of context c.
FmtFailing(c) ==
    /\ ctx[c].mode = "normal"
    /\ Printing(c)
    /\ ctx[c].msg # <<>>
    /\ Head(ctx[c].msg).err

\* C19: when formatting fails inside _print, the next step of that context
\* enters the panic handler with the guard of _print still held and the
\* lock taken; the context never goes back to its normal path; the handler
\* never holds the lock, none of the pieces of its diagnostic is delivered,
\* and no write_str runs at all from then on.
C19_FmtFailureDiagnosticLost ==
    /\ [][\A c \in Ctxs :
              FmtFailing(c) =>
                  \/ ctx'[c] = ctx[c]
                  \/ /\ Stuck(c)'
                     /\ locked'
                     /\ ctx'[c].pc = "access"
                     /\ ctx'[c].msg = PanicMsg
                     /\ ctx'[c].left = ctx[c].left
                     /\ UNCHANGED <<row, col, buffer, nops>>]_vars
    /\ [][\A c \in Ctxs :
              ctx[c].mode = "panic" =>
                  ctx'[c].mode = "panic" /\ ctx'[c].left = ctx[c].left]_vars
    /\ [](\A c \in Ctxs :
              Stuck(c) =>
                  /\ ~Printing(c)
                  /\ ctx[c].msg = PanicMsg
                  /\ ctx[c].done = 0)
    /\ [][(\E c \in Ctxs : Stuck(c)) => nops' = nops /\ log' = log]_vars

\* The _print call of a context wrote its first piece, formatting failed,
\* and the handler now spins on the lock with its whole diagnostic undelivered:
\* the last thing written is still that first piece.
C19_Witness ==
    \E c \in Ctxs :
        /\ Stuck(c)
        /\ ctx[c].pc = "spin"
        /\ ctx[c].msg = PanicMsg
        /\ op.s = BadMsg(c)[1].s
        /\ ascii_char(buffer[log[1].wrow][log[1].wcol]) = 64 + c

=============================================================================
